---- MODULE Spec2Model ----
(***************************************************************************)
(* Model of the observaciones reconciliation and batch-correction engine:  *)
(*   src/ai/observaciones/main.py                  main()                  *)
(*   src/ai/observaciones/preparar_observaciones.py preparar()             *)
(*   src/ai/observaciones/procesar_observaciones.py procesar()             *)
(*                                                                         *)
(* The state is the two CSV files (data/observaciones.csv, owned by an     *)
(* external producer, and data/observaciones_final.csv, owned by the       *)
(* engine), the environment variable GEMINI_API_KEY, and the locals of the *)
(* run of main() in flight.  A table (a polars DataFrame after             *)
(* unique(subset="id")) is a function from its ids to its row.             *)
(*                                                                         *)
(* Text values.  The source texts are "a" and "b"; Null is the polars null *)
(* a CSV reader yields for an empty field.  A string returned by the       *)
(* oracle is identified by the text it was asked to correct and by a       *)
(* variant (the oracle may answer the same request with different          *)
(* strings): Corr(t, v).                                                   *)
(***************************************************************************)
EXTENDS Integers, Sequences, FiniteSets, TLC

\* ------------------------------------------------------------------ bounds
MaxItems == 2       \* items of one oracle response
MaxRuns == 2        \* runs of main() in one behaviour
MaxEdits == 1       \* rewrites of the source file by its producer
BATCH_SIZE == 1     \* rows per oracle call (100 in the source, scaled to Ids)
MaxRows == 2        \* rows of a file with repeated ids (LoaderSpec)

\* --------------------------------------------------------------- constants
MAX_ATTEMPTS == 3

\* ------------------------------------------------------------------ values
Ids == 1..2
Null == "null"
Text == {"a", "b"}
TextOrNull == Text \cup {Null}
Variants == {1, 2}

\* The string the oracle returns, in variant v, for a request carrying text t.
Corr(t, v) ==
    CASE t = "a"  /\ v = 1 -> "A1"
      [] t = "a"  /\ v = 2 -> "A2"
      [] t = "b"  /\ v = 1 -> "B1"
      [] t = "b"  /\ v = 2 -> "B2"
      [] t = Null /\ v = 1 -> "N1"
      [] t = Null /\ v = 2 -> "N2"

\* The text a stored correction was produced for.
CorrectedFrom(s) ==
    CASE s \in {"A1", "A2"} -> "a"
      [] s \in {"B1", "B2"} -> "b"
      [] s \in {"N1", "N2"} -> Null

EmptyTable == [x \in {} |-> Null]

\* ------------------------------------------------- polars column expressions
\* Comparison and conjunction of nullable columns are three-valued: a null
\* operand makes != null, and when() takes its then-branch only on true.
IsNotNull(a) == IF a = Null THEN "false" ELSE "true"

NotEqual(a, b) ==
    IF a = Null \/ b = Null THEN Null
    ELSE IF a # b THEN "true" ELSE "false"

And3(p, q) ==
    IF p = "false" \/ q = "false" THEN "false"
    ELSE IF p = "true" /\ q = "true" THEN "true"
    ELSE Null

When(c, then, otherwise) == IF c = "true" THEN then ELSE otherwise

\* ------------------------------------------------------------- CSV loading
FileIds(rows) == {rows[k].id : k \in DOMAIN rows}

\* unique(subset="id", keep="first")
LastRow_First(rows, x) ==
    rows[CHOOSE k \in DOMAIN rows :
            /\ rows[k].id = x
            /\ \A j \in DOMAIN rows : rows[j].id = x => k <= j]

\* unique(subset="id", keep="last"): the last row of the file carrying id x.
LastRow(rows, x) ==
    rows[CHOOSE k \in DOMAIN rows :
            /\ rows[k].id = x
            /\ \A j \in DOMAIN rows : rows[j].id = x => j <= k]

_read_input(file) ==
    [x \in FileIds(file) |-> LastRow(file, x).observaciones]

_read_or_empty_output(file) ==
    IF file.exists
    THEN [x \in FileIds(file.rows) |->
            [observaciones_original |-> LastRow(file.rows, x).observaciones_original,
             observaciones_final    |-> LastRow(file.rows, x).observaciones_final]]
    ELSE EmptyTable

\* sort("id"): the ids of a table in increasing order.
SortedIds(S) ==
    CHOOSE s \in [1..Cardinality(S) -> S] :
        \A a, b \in 1..Cardinality(S) : a < b => s[a] < s[b]

\* df.sort("id").write_csv(OUTPUT_CSV): one row per id of the table.  A null
\* is written as an empty field and read back as null; a string is written
\* and read back unchanged (the texts of the model are not numerals, so the
\* reader's type inference leaves them strings).
write_csv(df) ==
    [exists |-> TRUE,
     columns |-> TRUE,
     rows   |-> [k \in 1..Cardinality(DOMAIN df) |->
                   [id |-> SortedIds(DOMAIN df)[k],
                    observaciones_original |->
                        df[SortedIds(DOMAIN df)[k]].observaciones_original,
                    observaciones_final |->
                        df[SortedIds(DOMAIN df)[k]].observaciones_final]]]

\* ---------------------------------------------------------------- preparar
\* 1) inner join on the source ids: persisted rows of ids no longer in force go.
KeepVigentes_NoDrop(out, in) == out

KeepVigentes(out, in) == [x \in (DOMAIN out) \cap (DOMAIN in) |-> out[x]]

\* 2) the when() condition shared by both rewritten columns.
TextoCambio_Always(obs, orig) == "true"

TextoCambio(obs, orig) == And3(IsNotNull(obs), NotEqual(obs, orig))

\* A left join on id: the joined column is null where the id has no match.
LeftJoin(t, x) == IF x \in DOMAIN t THEN t[x] ELSE Null

ActualizarOriginales(out, in) ==
    [x \in DOMAIN out |->
        [observaciones_original |->
            When(TextoCambio(LeftJoin(in, x), out[x].observaciones_original),
                 LeftJoin(in, x), out[x].observaciones_original),
         observaciones_final |->
            When(TextoCambio(LeftJoin(in, x), out[x].observaciones_original),
                 Null, out[x].observaciones_final)]]

\* 3) anti join: the source ids without a persisted row, final null.
Nuevos(in, out) ==
    [x \in (DOMAIN in) \ (DOMAIN out) |->
        [observaciones_original |-> in[x], observaciones_final |-> Null]]

\* concat + unique(subset="id", keep="last"): rows of nuevos win over df_out.
ConcatUnique(out, nuevos) ==
    [x \in (DOMAIN out) \cup (DOMAIN nuevos) |->
        IF x \in DOMAIN nuevos THEN nuevos[x] ELSE out[x]]

preparar_df(in, out) ==
    ConcatUnique(ActualizarOriginales(KeepVigentes(out, in), in),
                 Nuevos(in, ActualizarOriginales(KeepVigentes(out, in), in)))

\* ---------------------------------------------------------------- procesar
\* The ids to process: every source id when the persisted table is empty,
\* otherwise the source ids whose persisted row has a null final.
Pendientes_AnyFinal(in, out) ==
    IF DOMAIN out = {} THEN DOMAIN in ELSE (DOMAIN in) \cap (DOMAIN out)

Pendientes(in, out) ==
    IF DOMAIN out = {}
    THEN DOMAIN in
    ELSE {x \in DOMAIN in :
            x \in DOMAIN out /\ out[x].observaciones_final = Null}

\* df_todo.to_dicts(): the rows in the order polars yields them; unique()
\* and join() without maintain_order promise no particular order.
Orders(S) ==
    {s \in [1..Cardinality(S) -> S] :
        \A a, b \in 1..Cardinality(S) : a # b => s[a] # s[b]}

\* while pending and attempt <= MAX_ATTEMPTS
LoopContinues_OneMore(p, a) == p # <<>> /\ a <= MAX_ATTEMPTS + 1

LoopContinues_IgnoresEmpty(p, a) == a <= MAX_ATTEMPTS

LoopContinues(p, a) == p # <<>> /\ a <= MAX_ATTEMPTS

\* if new_pending and attempt < MAX_ATTEMPTS: time.sleep(RETRY_SECONDS)
Cooldown_Always(np, a) == TRUE

Cooldown(np, a) == np # <<>> /\ a < MAX_ATTEMPTS

Min(a, b) == IF a < b THEN a ELSE b

\* pending[i : i + BATCH_SIZE] with the end of the slice one row too far.
Batch_Overlap(p, k) == SubSeq(p, k + 1, Min(k + BATCH_SIZE + 1, Len(p)))

\* pending[i : i + BATCH_SIZE], with i counted from 0 as in the source.
Batch(p, k) == SubSeq(p, k + 1, Min(k + BATCH_SIZE, Len(p)))

SeqIds(s) == {s[k] : k \in DOMAIN s}

\* A response of the oracle to one generate_content call: the call raises,
\* or its text is empty or not JSON ("garbage"), or it is a JSON list.  An
\* item of the list carries an id and, under observaciones_final, a string,
\* a value that is no string (NonStr), or nothing at all (Missing).
Missing == "missing"
NonStr == "nonstr"

\* The strings an item of id x may carry: for an id of the batch, a correction
\* of the text sent; for any other id one string stands for all, since the
\* loop drops the item without looking at it.
OracleStrings(ids, in, x) ==
    IF x \in ids THEN {Corr(in[x], v) : v \in Variants} ELSE {Corr(Null, 1)}

ResponseItems(ids, in) ==
    UNION {{[id |-> x, observaciones_final |-> w] :
                w \in {Missing, NonStr} \cup OracleStrings(ids, in, x)} : x \in Ids}

SeqsUpTo(S, n) == UNION {[1..k -> S] : k \in 0..n}

Responses(ids, in) ==
    {[kind |-> "raise", items |-> <<>>], [kind |-> "garbage", items |-> <<>>]}
    \cup {[kind |-> "list", items |-> s] : s \in SeqsUpTo(ResponseItems(ids, in), MaxItems)}

\* What is remembered of the response to the call in flight: its kind and
\* the ids of its items that carry an id of the batch and a string.
ValidIds(r, ids) ==
    {r.items[k].id : k \in {j \in DOMAIN r.items :
        /\ r.items[j].id \in ids
        /\ r.items[j].observaciones_final \notin {Missing, NonStr}}}

Summary(r, ids) == [kind |-> r.kind, valid |-> ValidIds(r, ids)]

NoResponse == [kind |-> "none", valid |-> {}]

\* if isinstance(it, dict) and "id" in it and "observaciones_final" in it
HasBothKeys(it) == it.observaciones_final # Missing

WithBothKeys(items) == SelectSeq(items, HasBothKeys)

\* _call_batch: a response that validates as list[Correction] comes back
\* through resp.parsed; otherwise the text is parsed by hand, the items
\* lacking a key are skipped, and Correction(**it) raising on any other item
\* empties the whole result.  A failing generate_content call raises.
_call_batch(resp) ==
    CASE resp.kind = "raise" -> [raised |-> TRUE, corr |-> <<>>]
      [] resp.kind = "list" ->
            IF \E k \in DOMAIN resp.items : resp.items[k].observaciones_final = NonStr
            THEN [raised |-> FALSE, corr |-> <<>>]
            ELSE [raised |-> FALSE, corr |-> WithBothKeys(resp.items)]
      [] OTHER -> [raised |-> FALSE, corr |-> <<>>]

\* try: corr = _call_batch(client, batch) / except Exception: corr = []
TryCallBatch_NoExcept(resp) == _call_batch(resp)

TryCallBatch(resp) == [raised |-> FALSE, corr |-> _call_batch(resp).corr]

\* What one guarded call of a batch of ids leaves in the loop, over every
\* response of the oracle: the summary of the response and what the call
\* returned.
Outcomes(ids, in) ==
    {[resp |-> Summary(r, ids), call |-> TryCallBatch(r)] : r \in Responses(ids, in)}

\* if isinstance(c.observaciones_final, str), without the test of the id
Accepts_AnyId(c, ids) == c.observaciones_final \notin {Missing, NonStr}

\* if c.id in ids and isinstance(c.observaciones_final, str)
Accepts(c, ids) ==
    c.id \in ids /\ c.observaciones_final \notin {Missing, NonStr}

\* for item in batch: if item["id"] not in got: new_pending.append(item)
RECURSIVE NotGot(_, _)
NotGot(batch, g) ==
    IF batch = <<>> THEN <<>>
    ELSE IF Head(batch) \in g
         THEN NotGot(Tail(batch), g)
         ELSE <<Head(batch)>> \o NotGot(Tail(batch), g)

Coalesce(a, b) == IF a # Null THEN a ELSE b

\* df_out.is_empty(): df_in left-joined with the results.
MergeDesdeCero(in, res) ==
    [x \in DOMAIN in |->
        [observaciones_original |-> in[x],
         observaciones_final |-> LeftJoin(res, x)]]

\* otherwise: df_out left-joined with the results and with df_in.
MergeActualizar(out, in, res) ==
    [x \in DOMAIN out |->
        [observaciones_original |->
            When(IsNotNull(LeftJoin(in, x)), LeftJoin(in, x),
                 out[x].observaciones_original),
         observaciones_final |->
            Coalesce(LeftJoin(res, x), out[x].observaciones_final)]]

\* The table built from the source whatever the persisted table holds.
Merge_AlwaysDesdeCero(out, in, res) == MergeDesdeCero(in, res)

Merge(out, in, res) ==
    IF DOMAIN out = {} THEN MergeDesdeCero(in, res) ELSE MergeActualizar(out, in, res)

\* ------------------------------------------------------------------- state
VARIABLES
    srcFile,      \* data/observaciones.csv: rows of (id, observaciones)
    srcStatus,    \* data/observaciones.csv: "ok", "missing" or "no_columns"
    outFile,      \* data/observaciones_final.csv: whether it exists, whether
                  \* it has its three columns, its rows
    apiKey,       \* whether GEMINI_API_KEY is set for the run in flight
    pc,           \* position of the run of main()
    outcome,      \* how the last run ended
    df_in,        \* the source table loaded by the phase in flight
    df_out,       \* the persisted table loaded by the phase in flight
    final_df,     \* the table written by the phase that ended last
    pending,      \* procesar: ids of the rows to dispatch in this attempt
    new_pending,  \* procesar: ids carried to the next attempt
    results,      \* procesar: id -> corrected string
    attempt,      \* procesar: attempt number, from 1
    batches,      \* procesar: the batches sent so far in this attempt
    sleeps,       \* procesar: the time.sleep(RETRY_SECONDS) calls of the run
    i,            \* procesar: offset of the batch in pending
    corr,         \* procesar: corrections of the batch not yet looked at
    got,          \* procesar: ids of the batch satisfied by this call
    resp,         \* summary of the oracle's response to the call in flight
    calls,        \* id -> number of _call_batch invocations carrying it, this run
    io,           \* dataset I/O performed by the run so far
    runs,         \* runs of main() started
    edits         \* rewrites of the source file so far

vars == <<srcFile, srcStatus, outFile, apiKey, pc, outcome, df_in, df_out, final_df,
          pending, new_pending, results, attempt, batches, sleeps, i, corr,
          got, resp, calls, io, runs, edits>>

loopVars == <<pending, new_pending, results, attempt, batches, sleeps, i, corr,
              got, resp, calls>>

\* The source files the producer writes: any set of ids, any text or an
\* empty field for each, one row per id.
SourceFileOf(t) ==
    [k \in 1..Cardinality(DOMAIN t) |->
        [id |-> SortedIds(DOMAIN t)[k], observaciones |-> t[SortedIds(DOMAIN t)[k]]]]

SourceFiles ==
    {SourceFileOf(t) : t \in UNION {[S -> TextOrNull] : S \in SUBSET Ids}}

\* The source file as a whole: it is there with its two columns, it is not
\* there, or it is there without one of them.  A file that cannot be read
\* has no rows for the engine.
SourceStates ==
    {[status |-> "ok", rows |-> f] : f \in SourceFiles}
    \cup {[status |-> st, rows |-> <<>>] : st \in {"missing", "no_columns"}}

\* if not INPUT_CSV.exists(): raise FileNotFoundError
SourceMissing(st) == st = "missing"

\* if not {"id", "observaciones"}.issubset(df.columns): raise ValueError
SourceLacksColumns(st) == st = "no_columns"

\* The persisted file is there without one of its three columns.
OutputLacksColumns(file) == file.exists /\ ~file.columns

NoOutputFile == [exists |-> FALSE, columns |-> FALSE, rows |-> <<>>]

\* A file put at the place of the persisted file by somebody else, without
\* the columns of the engine.
ForeignOutputFile == [exists |-> TRUE, columns |-> FALSE, rows |-> <<>>]

NoCalls == [x \in Ids |-> 0]

Init ==
    /\ \E st \in SourceStates : srcFile = st.rows /\ srcStatus = st.status
    /\ outFile \in {NoOutputFile, ForeignOutputFile}
    /\ apiKey = FALSE
    /\ pc = "idle"
    /\ outcome = "none"
    /\ df_in = EmptyTable
    /\ df_out = EmptyTable
    /\ final_df = EmptyTable
    /\ pending = <<>>
    /\ new_pending = <<>>
    /\ results = EmptyTable
    /\ attempt = 1
    /\ batches = <<>>
    /\ sleeps = 0
    /\ i = 0
    /\ corr = <<>>
    /\ got = {}
    /\ resp = NoResponse
    /\ calls = NoCalls
    /\ io = {}
    /\ runs = 0
    /\ edits = 0

\* The external producer rewrites the source file.  It may do so at any
\* moment; a run reads the file at two points only (in preparar and at the
\* start of procesar), so a rewrite that falls inside the retry loop is seen
\* by nobody before the run ends and is taken when the run has ended.
ProducerRewrites ==
    /\ edits < MaxEdits
    /\ pc \in {"idle", "prepared"}
    /\ \E st \in SourceStates \ {[status |-> srcStatus, rows |-> srcFile]} :
            srcFile' = st.rows /\ srcStatus' = st.status
    /\ edits' = edits + 1
    /\ UNCHANGED <<outFile, apiKey, pc, outcome, df_in, df_out, final_df,
                   io, runs>>
    /\ UNCHANGED loopVars

\* main(): the source file is not there; nothing is read.
MainSinFuente ==
    /\ pc = "idle"
    /\ runs < MaxRuns
    /\ SourceMissing(srcStatus)
    /\ runs' = runs + 1
    /\ \E k \in BOOLEAN : apiKey' = k
    /\ io' = {}
    /\ pc' = "done"
    /\ outcome' = "source_missing"
    /\ UNCHANGED <<srcFile, srcStatus, outFile, df_in, df_out, final_df, edits>>
    /\ UNCHANGED loopVars

\* preparar(): _read_input() finds the source without its columns.
PrepararFuenteInvalida ==
    /\ pc = "idle"
    /\ runs < MaxRuns
    /\ SourceLacksColumns(srcStatus)
    /\ runs' = runs + 1
    /\ \E k \in BOOLEAN : apiKey' = k
    /\ io' = {"read_source"}
    /\ pc' = "done"
    /\ outcome' = "schema_error"
    /\ UNCHANGED <<srcFile, srcStatus, outFile, df_in, df_out, final_df, edits>>
    /\ UNCHANGED loopVars

\* preparar(): _read_or_empty_output() finds the persisted file without its
\* columns.
PrepararSalidaInvalida ==
    /\ pc = "idle"
    /\ runs < MaxRuns
    /\ srcStatus = "ok"
    /\ OutputLacksColumns(outFile)
    /\ runs' = runs + 1
    /\ \E k \in BOOLEAN : apiKey' = k
    /\ df_in' = _read_input(srcFile)
    /\ io' = {"read_source", "read_persisted"}
    /\ pc' = "done"
    /\ outcome' = "schema_error"
    /\ UNCHANGED <<srcFile, srcStatus, outFile, df_out, final_df, edits>>
    /\ UNCHANGED loopVars

\* main(), first half: the source file exists, preparar() runs to its end.
Preparar ==
    /\ pc = "idle"
    /\ runs < MaxRuns
    /\ srcStatus = "ok"
    /\ ~OutputLacksColumns(outFile)
    /\ runs' = runs + 1
    /\ \E k \in BOOLEAN : apiKey' = k
    /\ df_in' = _read_input(srcFile)
    /\ df_out' = _read_or_empty_output(outFile)
    /\ final_df' = preparar_df(df_in', df_out')
    /\ outFile' = write_csv(final_df')
    /\ io' = {"read_source", "read_persisted", "write_persisted"}
    /\ pc' = "prepared"
    /\ outcome' = "running"
    /\ UNCHANGED <<srcFile, srcStatus, edits>>
    /\ UNCHANGED loopVars

\* procesar(): GEMINI_API_KEY is not set.
ProcesarSinCredencial ==
    /\ pc = "prepared"
    /\ ~apiKey
    /\ pc' = "done"
    /\ outcome' = "missing_credential"
    /\ UNCHANGED <<srcFile, srcStatus, outFile, apiKey, df_in, df_out, final_df, io, runs, edits>>
    /\ UNCHANGED loopVars

\* procesar(): _read_input() finds the source gone, or without its columns.
\* (The persisted file is the one preparar() has just written: it has its
\* columns.)
ProcesarFuenteInvalida ==
    /\ pc = "prepared"
    /\ apiKey
    /\ SourceMissing(srcStatus) \/ SourceLacksColumns(srcStatus)
    /\ io' = IF SourceMissing(srcStatus) THEN io ELSE io \cup {"read_source"}
    /\ pc' = "done"
    /\ outcome' = IF SourceMissing(srcStatus) THEN "source_missing" ELSE "schema_error"
    /\ UNCHANGED <<srcFile, srcStatus, outFile, apiKey, df_in, df_out, final_df,
                   runs, edits>>
    /\ UNCHANGED loopVars

\* procesar(): nothing is pending; the persisted table is rewritten sorted.
ProcesarSinPendientes ==
    /\ pc = "prepared"
    /\ apiKey
    /\ srcStatus = "ok"
    /\ df_in' = _read_input(srcFile)
    /\ df_out' = _read_or_empty_output(outFile)
    /\ Pendientes(df_in', df_out') = {}
    /\ final_df' = df_out'
    /\ outFile' = write_csv(df_out')
    /\ io' = io \cup {"read_source", "read_persisted", "write_persisted"}
    /\ pc' = "done"
    /\ outcome' = "ok"
    /\ UNCHANGED <<srcFile, srcStatus, apiKey, runs, edits>>
    /\ UNCHANGED loopVars

\* procesar(): the pending rows are loaded and the retry loop is entered.
ProcesarPendientes ==
    /\ pc = "prepared"
    /\ apiKey
    /\ srcStatus = "ok"
    /\ df_in' = _read_input(srcFile)
    /\ df_out' = _read_or_empty_output(outFile)
    /\ Pendientes(df_in', df_out') # {}
    /\ \E p \in Orders(Pendientes(df_in', df_out')) : pending' = p
    /\ new_pending' = <<>>
    /\ results' = EmptyTable
    /\ attempt' = 1
    /\ batches' = <<>>
    /\ sleeps' = 0
    /\ i' = 0
    /\ calls' = NoCalls
    /\ io' = io \cup {"read_source", "read_persisted"}
    /\ pc' = "attempt"
    /\ UNCHANGED <<srcFile, srcStatus, outFile, apiKey, outcome, final_df, corr, got, resp,
                   runs, edits>>

\* One batch of the attempt is sent to the oracle.
CallBatch ==
    /\ pc = "attempt"
    /\ i < Len(pending)
    /\ \E o \in Outcomes(SeqIds(Batch(pending, i)), df_in) :
        /\ resp' = o.resp
        /\ IF o.call.raised
           THEN /\ pc' = "done"
                /\ outcome' = "oracle_error"
                /\ corr' = <<>>
           ELSE /\ pc' = "items"
                /\ outcome' = outcome
                /\ corr' = o.call.corr
    /\ got' = {}
    /\ batches' = Append(batches, Batch(pending, i))
    /\ calls' = [x \in Ids |->
                    IF x \in SeqIds(Batch(pending, i)) THEN calls[x] + 1 ELSE calls[x]]
    /\ UNCHANGED <<srcFile, srcStatus, outFile, apiKey, df_in, df_out, final_df, pending,
                   new_pending, results, attempt, sleeps, i, io, runs, edits>>

\* for c in corr: one correction is looked at.
StoreItem ==
    /\ pc = "items"
    /\ corr # <<>>
    /\ IF Accepts(Head(corr), SeqIds(Batch(pending, i)))
       THEN /\ results' = [x \in DOMAIN results \cup {Head(corr).id} |->
                              IF x = Head(corr).id
                              THEN Head(corr).observaciones_final
                              ELSE results[x]]
            /\ got' = got \cup {Head(corr).id}
       ELSE UNCHANGED <<results, got>>
    /\ corr' = Tail(corr)
    /\ UNCHANGED <<srcFile, srcStatus, outFile, apiKey, pc, outcome, df_in, df_out, final_df,
                   pending, new_pending, attempt, batches, sleeps, i, resp, calls,
                   io, runs, edits>>

\* The rows of the batch not satisfied are queued for the next attempt.
EndBatch ==
    /\ pc = "items"
    /\ corr = <<>>
    /\ new_pending' = new_pending \o NotGot(Batch(pending, i), got)
    /\ i' = i + BATCH_SIZE
    /\ got' = {}
    /\ resp' = NoResponse
    /\ pc' = "attempt"
    /\ UNCHANGED <<srcFile, srcStatus, outFile, apiKey, outcome, df_in, df_out, final_df,
                   pending, results, attempt, batches, sleeps, corr, calls, io,
                   runs, edits>>

\* The batches of the attempt are done: cooldown, next attempt or loop exit.
EndAttempt ==
    /\ pc = "attempt"
    /\ i >= Len(pending)
    /\ sleeps' = IF Cooldown(new_pending, attempt) THEN sleeps + 1 ELSE sleeps
    /\ pending' = new_pending
    /\ new_pending' = <<>>
    /\ batches' = <<>>
    /\ attempt' = attempt + 1
    /\ i' = 0
    /\ pc' = IF LoopContinues(pending', attempt') THEN "attempt" ELSE "merge"
    /\ UNCHANGED <<srcFile, srcStatus, outFile, apiKey, outcome, df_in, df_out, final_df,
                   results, corr, got, resp, calls, io, runs, edits>>

\* if not results
NoResults_Never(res) == FALSE

NoResults(res) == DOMAIN res = {}

\* if not results: raise RuntimeError("No se generaron correcciones.")
SinCorrecciones ==
    /\ pc = "merge"
    /\ NoResults(results)
    /\ pc' = "done"
    /\ outcome' = "no_corrections"
    /\ UNCHANGED <<srcFile, srcStatus, outFile, apiKey, df_in, df_out, final_df, io, runs, edits>>
    /\ UNCHANGED loopVars

\* The results are merged into the persisted table, which is rewritten.
EscribirResultados ==
    /\ pc = "merge"
    /\ ~NoResults(results)
    /\ final_df' = Merge(df_out, df_in, results)
    /\ outFile' = write_csv(final_df')
    /\ io' = io \cup {"write_persisted"}
    /\ pc' = "done"
    /\ outcome' = "ok"
    /\ UNCHANGED <<srcFile, srcStatus, apiKey, df_in, df_out, runs, edits>>
    /\ UNCHANGED loopVars

\* The process of the run ends; nothing of it is left but the files.
Exit ==
    /\ pc = "done"
    /\ pc' = "idle"
    /\ outcome' = "none"
    /\ apiKey' = FALSE
    /\ df_in' = EmptyTable
    /\ df_out' = EmptyTable
    /\ final_df' = EmptyTable
    /\ pending' = <<>>
    /\ new_pending' = <<>>
    /\ results' = EmptyTable
    /\ attempt' = 1
    /\ batches' = <<>>
    /\ sleeps' = 0
    /\ i' = 0
    /\ corr' = <<>>
    /\ got' = {}
    /\ resp' = NoResponse
    /\ calls' = NoCalls
    /\ io' = {}
    /\ UNCHANGED <<srcFile, srcStatus, outFile, runs, edits>>

Next ==
    \/ ProducerRewrites
    \/ MainSinFuente
    \/ PrepararFuenteInvalida
    \/ PrepararSalidaInvalida
    \/ Preparar
    \/ ProcesarSinCredencial
    \/ ProcesarFuenteInvalida
    \/ ProcesarSinPendientes
    \/ ProcesarPendientes
    \/ CallBatch
    \/ StoreItem
    \/ EndBatch
    \/ EndAttempt
    \/ SinCorrecciones
    \/ EscribirResultados
    \/ Exit

Spec == Init /\ [][Next]_vars

\* ----------------------------------------------------------------------
\* Files with repeated ids.  The engine writes one row per id, and so does
\* the producer as a rule; a file edited by hand or appended to may carry an
\* id several times.  preparar() is run once on every pair of such files.
SourceRows == {[id |-> x, observaciones |-> t] : x \in Ids, t \in TextOrNull}

PersistedRows ==
    {[id |-> x, observaciones_original |-> t, observaciones_final |-> f] :
        x \in Ids, t \in {Null, "a"}, f \in {Null, "A1"}}

InitLoader ==
    /\ srcFile \in SeqsUpTo(SourceRows, MaxRows)
    /\ srcStatus = "ok"
    /\ outFile \in {NoOutputFile}
            \cup {[exists |-> TRUE, columns |-> TRUE, rows |-> r] :
                        r \in SeqsUpTo(PersistedRows, MaxRows)}
    /\ apiKey = FALSE
    /\ pc = "idle"
    /\ outcome = "none"
    /\ df_in = EmptyTable
    /\ df_out = EmptyTable
    /\ final_df = EmptyTable
    /\ pending = <<>>
    /\ new_pending = <<>>
    /\ results = EmptyTable
    /\ attempt = 1
    /\ batches = <<>>
    /\ sleeps = 0
    /\ i = 0
    /\ corr = <<>>
    /\ got = {}
    /\ resp = NoResponse
    /\ calls = NoCalls
    /\ io = {}
    /\ runs = 0
    /\ edits = 0

NextLoader == Preparar

LoaderSpec == InitLoader /\ [][NextLoader]_vars

\* ======================================================================
\* Properties
\* ======================================================================
Persisted == _read_or_empty_output(outFile)

JustPrepared == pc = "prepared"

\* C1 (as claimed): after preparar(), every id present in both the source
\* table and the persisted table it loaded, whose source text differs from
\* the stored observaciones_original, has observaciones_final null and
\* observaciones_original equal to the source text in the written table.
C1_ChangeInvalidation ==
    JustPrepared =>
        \A x \in (DOMAIN df_in) \cap (DOMAIN df_out) :
            df_in[x] # df_out[x].observaciones_original =>
                /\ x \in DOMAIN Persisted
                /\ Persisted[x].observaciones_final = Null
                /\ Persisted[x].observaciones_original = df_in[x]

\* C2: the table preparar() returns and writes has exactly the ids of the
\* source table, one row per id; no persisted id absent from the source
\* survives, and every source id without a persisted row appears with
\* observaciones_original equal to its source text and a null final.
C2_Conservation ==
    JustPrepared =>
        /\ outFile.exists
        /\ FileIds(outFile.rows) = DOMAIN df_in
        /\ Len(outFile.rows) = Cardinality(DOMAIN df_in)
        /\ DOMAIN final_df = DOMAIN df_in
        /\ Persisted = final_df
        /\ \A x \in (DOMAIN df_out) \ (DOMAIN df_in) : x \notin FileIds(outFile.rows)
        /\ \A x \in (DOMAIN df_in) \ (DOMAIN df_out) :
                /\ Persisted[x].observaciones_original = df_in[x]
                /\ Persisted[x].observaciones_final = Null

\* C2 witness: one reconciliation that both drops a persisted id and adds a
\* new source id.
C2_Witness ==
    /\ JustPrepared
    /\ (DOMAIN df_out) \ (DOMAIN df_in) # {}
    /\ (DOMAIN df_in) \ (DOMAIN df_out) # {}

\* C3: preparar() run again with the same source on the table it has just
\* written yields that table again (same rows, same order), and a record
\* that was already corrected and whose source text is unchanged keeps its
\* observaciones_final.
C3_Idempotence ==
    JustPrepared =>
        /\ write_csv(preparar_df(df_in, Persisted)) = outFile
        /\ preparar_df(df_in, Persisted) = final_df
        /\ \A x \in (DOMAIN df_in) \cap (DOMAIN df_out) :
                (/\ df_out[x].observaciones_final # Null
                 /\ df_out[x].observaciones_original = df_in[x])
                => final_df[x].observaciones_final = df_out[x].observaciones_final

\* C3 witness: a reconciliation over a table holding a corrected record whose
\* text is unchanged next to a record whose text changed.
C3_Witness ==
    /\ JustPrepared
    /\ \E x \in (DOMAIN df_in) \cap (DOMAIN df_out) :
            /\ df_out[x].observaciones_final # Null
            /\ df_out[x].observaciones_original = df_in[x]
    /\ \E y \in (DOMAIN df_in) \cap (DOMAIN df_out) :
            /\ df_out[y].observaciones_final # Null
            /\ final_df[y].observaciones_final = Null

\* C4 (as claimed): in every persisted table the engine has written, a
\* present observaciones_final is the oracle's output for exactly the
\* observaciones_original stored in the same row.
C4_EpochConsistency ==
    \A k \in DOMAIN outFile.rows :
        outFile.rows[k].observaciones_final # Null =>
            CorrectedFrom(outFile.rows[k].observaciones_final)
                = outFile.rows[k].observaciones_original

\* C5: in one run of the retry loop, no id is carried by more than
\* MAX_ATTEMPTS invocations of _call_batch, whatever the oracle answers.
C5_AtMostAttempts == \A x \in Ids : calls[x] <= MAX_ATTEMPTS

\* C5 witness: an id dispatched MAX_ATTEMPTS times and still unresolved when
\* the loop has ended.
C5_Witness ==
    /\ pc = "merge"
    /\ \E x \in Ids : calls[x] = MAX_ATTEMPTS /\ x \notin DOMAIN results

\* C6 (as claimed): once an id is a key of results, no later batch of the
\* run carries it and the value stored for it is never replaced by a
\* different one.
C6_SatisfiedIsFinal ==
    /\ [](pc = "items" => (SeqIds(Batch(pending, i)) \cap DOMAIN results) \subseteq got)
    /\ [][(pc \in {"attempt", "items", "merge"}) =>
            (\A x \in DOMAIN results :
                x \in DOMAIN results' /\ results'[x] = results[x])]_vars

\* C7 (as claimed): when the retry loop ends after MAX_ATTEMPTS attempts with
\* ids still unresolved, procesar() ends without raising and the unresolved
\* ids keep a null observaciones_final in the persisted table.
C7_ExhaustionNotFatal ==
    (pc = "done" /\ attempt > MAX_ATTEMPTS /\ pending # <<>>) =>
        /\ outcome = "ok"
        /\ \A x \in SeqIds(pending) \cap DOMAIN Persisted :
                Persisted[x].observaciones_final = Null

\* C8: a batch call that raises, or whose payload is empty or unparsable,
\* contributes no result and does not end the run: the loop goes on with the
\* next batch, results are kept as they were, every id of the batch is queued
\* for the next attempt, and the queue becomes the next attempt's pending.
OracleFailed == pc = "items" /\ resp.kind \in {"raise", "garbage"}

C8_OracleFailureContained ==
    /\ [](outcome # "oracle_error")
    /\ [](OracleFailed => corr = <<>> /\ got = {})
    /\ [][(OracleFailed /\ pc' # "items") =>
            (/\ pc' = "attempt"
             /\ results' = results
             /\ new_pending' = new_pending \o Batch(pending, i)
             /\ pending' = pending
             /\ attempt' = attempt
             /\ i' = i + BATCH_SIZE)]_vars
    /\ [][(pc = "attempt" /\ attempt' = attempt + 1) => pending' = new_pending]_vars

\* C8 witness: a batch call that raised, in an attempt in which another batch
\* has already produced a result.
C8_Witness ==
    /\ OracleFailed
    /\ resp.kind = "raise"
    /\ attempt = 1
    /\ i > 0
    /\ DOMAIN results # {}

\* C9 (as claimed): the ids a call adds to results are exactly the ids of
\* the response items that carry an id of the batch and a string.
C9_PerItemValidation ==
    (pc = "items" /\ corr = <<>>) => got = resp.valid

\* C10 (as claimed): a run of main() without GEMINI_API_KEY fails before any
\* read of the source or persisted file and before any write.
C10_CredentialFirst ==
    outcome = "missing_credential" => io = {}

\* The retry loop of this run has been left (attempt counts the attempts
\* made, plus one).
LoopEnded == pc = "done" /\ attempt > 1 /\ outcome \in {"ok", "no_corrections"}

\* C11 (as claimed): in the table procesar() writes after the retry loop,
\* every persisted record whose id is a key of results has
\* observaciones_final = results[id], and every other persisted record has
\* the observaciones_original and observaciones_final it had in the table
\* read at the start of procesar().
C11_MergeSemantics ==
    (LoopEnded /\ outcome = "ok") =>
        \A x \in DOMAIN df_out :
            /\ x \in DOMAIN Persisted
            /\ IF x \in DOMAIN results
               THEN Persisted[x].observaciones_final = results[x]
               ELSE Persisted[x] = df_out[x]

\* C12: when the retry loop ends with an empty results map, the persisted
\* table after procesar() equals, record for record, the table procesar()
\* read at its start, and the file is the one preparar() wrote.
C12_MergeSafety ==
    (LoopEnded /\ DOMAIN results = {}) =>
        /\ Persisted = df_out
        /\ outFile = write_csv(df_out)

\* C12 witness: the loop ended without a single result, on a table that was
\* not empty, after the producer rewrote the source.
C12_Witness ==
    /\ LoopEnded
    /\ DOMAIN results = {}
    /\ DOMAIN df_out # {}
    /\ \E x \in (DOMAIN df_out) \cap (DOMAIN df_in) :
            df_in[x] # df_out[x].observaciones_original

\* C13 (as claimed): when every pending id got a valid item in some attempt
\* of the budget, the run ends with every record's observaciones_final
\* present and equal to the oracle's value, and observaciones_original equal
\* to the source text.
Converged ==
    /\ LoopEnded
    /\ outcome = "ok"
    /\ pending = <<>>
    /\ \A x \in DOMAIN df_out :
            df_out[x].observaciones_final = Null => x \in DOMAIN results

C13_Convergence ==
    Converged =>
        \A x \in DOMAIN Persisted :
            /\ Persisted[x].observaciones_final # Null
            /\ x \in DOMAIN results => Persisted[x].observaciones_final = results[x]
            /\ x \in DOMAIN df_in => Persisted[x].observaciones_original = df_in[x]

\* After reconciliation no record has observaciones_final absent, and
\* procesar() is about to run with a credential.
NadaPendiente ==
    /\ pc = "prepared"
    /\ apiKey
    /\ \A x \in DOMAIN Persisted : Persisted[x].observaciones_final # Null

\* procesar() made no oracle call, did not raise, and the file it wrote is
\* the reconciled one.
NoOp ==
    /\ pc' = "done"
    /\ outcome' = "ok"
    /\ calls' = NoCalls
    /\ outFile' = outFile

\* C15 (as claimed): when after reconciliation no record has
\* observaciones_final absent, procesar() makes no oracle call, does not
\* raise, and writes the reconciled table.
C15_NothingPendingNoOp ==
    [][(NadaPendiente /\ pc' # "prepared") => NoOp]_vars

\* The ids dispatched so far in this run of the retry loop.
Dispatched == {x \in Ids : calls[x] > 0}

\* A variant of the retry loop: it is a natural number in every state of the
\* loop and every step of the loop makes it smaller.
LoopVariant ==
    (MAX_ATTEMPTS + 1 - attempt) * 100
    + (Len(pending) - Min(i, Len(pending))) * 10
    + (IF pc = "items" THEN 1 + Len(corr) ELSE 9)

\* C16: the retry loop ends after at most MAX_ATTEMPTS attempts whatever the
\* oracle answers (every loop step decreases LoopVariant); no attempt is
\* started, and no oracle call made, on an empty remaining list; the loop is
\* left with the remaining list empty or after attempt MAX_ATTEMPTS, and the
\* remaining ids are then the dispatched ids that are not keys of results.
C16_LoopTermination ==
    /\ []((pc \in {"attempt", "items"}) =>
            (attempt \in 1..MAX_ATTEMPTS /\ pending # <<>> /\ LoopVariant \in Nat))
    /\ [][((pc \in {"attempt", "items"}) /\ (pc' \in {"attempt", "items"}))
            => LoopVariant' < LoopVariant]_vars
    /\ []((pc = "attempt" /\ i = 0 /\ attempt > 1) =>
            SeqIds(pending) = Dispatched \ DOMAIN results)
    /\ [](pc = "merge" =>
            (/\ pending = <<>> \/ attempt = MAX_ATTEMPTS + 1
             /\ attempt \in 2..(MAX_ATTEMPTS + 1)
             /\ SeqIds(pending) = Dispatched \ DOMAIN results))

\* C16 witness: the loop left after attempt MAX_ATTEMPTS with one id resolved
\* and another one remaining.
C16_Witness ==
    /\ pc = "merge"
    /\ attempt = MAX_ATTEMPTS + 1
    /\ pending # <<>>
    /\ DOMAIN results # {}

\* The ids of the persisted records with an absent observaciones_final that
\* are still in the source.
PendingSet ==
    {x \in (DOMAIN Persisted) \cap (DOMAIN df_in) :
        Persisted[x].observaciones_final = Null}

Attempt1Dispatched == pc = "attempt" /\ attempt = 1 /\ i >= Len(pending)

\* No record with a present observaciones_final is sent, and a result comes
\* from the text the source file holds for its id.
OnlyPendingSent ==
    (pc \in {"attempt", "items"}) =>
        /\ \A x \in SeqIds(pending) \cup Dispatched :
                /\ x \in DOMAIN df_in
                /\ x \in DOMAIN Persisted => Persisted[x].observaciones_final = Null
        /\ df_in = _read_input(srcFile)
        /\ \A x \in DOMAIN results : CorrectedFrom(results[x]) = df_in[x]

RECURSIVE Flatten(_)
Flatten(ss) == IF ss = <<>> THEN <<>> ELSE Head(ss) \o Flatten(Tail(ss))

C19_CooldownOrdering ==
    /\ []((pc \in {"attempt", "items"}) => sleeps = attempt - 1)
    /\ []((pc = "merge") => sleeps = attempt - 2)
    /\ [][(pc # "done" /\ sleeps' # sleeps) =>
            (/\ pc = "attempt"
             /\ Flatten(batches) = pending
             /\ sleeps' = sleeps + 1
             /\ attempt' = attempt + 1
             /\ pc' = "attempt"
             /\ batches' = <<>>)]_vars
    /\ [][(pc = "attempt" /\ attempt' = attempt + 1) =>
            (sleeps' = sleeps <=> pc' = "merge")]_vars

\* C19 witness: the loop left after MAX_ATTEMPTS attempts with ids remaining
\* and MAX_ATTEMPTS - 1 waits.
C19_Witness ==
    /\ pc = "merge"
    /\ pending # <<>>
    /\ sleeps = MAX_ATTEMPTS - 1

\* The run ended on a source file that is missing or lacks its columns, or on
\* a persisted file that lacks its columns.
SchemaFailed == pc = "done" /\ outcome \in {"source_missing", "schema_error"}

\* C14 (as claimed): a run that ends on a missing or malformed source file, or
\* on a malformed persisted file, has written nothing: the persisted file is
\* the one that was there before the run.
C14_SchemaErrorsWriteNothing ==
    /\ [](SchemaFailed => "write_persisted" \notin io)
    /\ [][(pc = "idle" /\ SchemaFailed') => outFile' = outFile]_vars

\* Row k is the last row of the file that carries its id.
IsLastOfId(rows, k) == \A j \in DOMAIN rows : rows[j].id = rows[k].id => j <= k

\* C20: when the source or the persisted file loaded by preparar() carries an
\* id on several rows, the loaded tables hold, for every id, the values of the
\* last of its rows, the written table is the reconciliation of these values
\* (a new id gets the text of its last source row, a persisted id is compared
\* by its last row), and the rows written have strictly increasing ids.
C20_LastWriteWins ==
    [][(pc = "idle" /\ pc' = "prepared") =>
        (/\ DOMAIN df_in' = FileIds(srcFile)
         /\ \A k \in DOMAIN srcFile :
                IsLastOfId(srcFile, k) => df_in'[srcFile[k].id] = srcFile[k].observaciones
         /\ DOMAIN df_out' = FileIds(outFile.rows)
         /\ \A k \in DOMAIN outFile.rows :
                IsLastOfId(outFile.rows, k) =>
                    /\ df_out'[outFile.rows[k].id].observaciones_original
                            = outFile.rows[k].observaciones_original
                    /\ df_out'[outFile.rows[k].id].observaciones_final
                            = outFile.rows[k].observaciones_final
         /\ \A k \in DOMAIN srcFile :
                (IsLastOfId(srcFile, k) /\ srcFile[k].id \notin FileIds(outFile.rows)) =>
                    \E n \in DOMAIN outFile'.rows :
                        /\ outFile'.rows[n].id = srcFile[k].id
                        /\ outFile'.rows[n].observaciones_original = srcFile[k].observaciones
                        /\ outFile'.rows[n].observaciones_final = Null
         /\ \A k \in DOMAIN outFile.rows, j \in DOMAIN srcFile :
                (/\ IsLastOfId(outFile.rows, k)
                 /\ IsLastOfId(srcFile, j)
                 /\ srcFile[j].id = outFile.rows[k].id
                 /\ srcFile[j].observaciones = outFile.rows[k].observaciones_original) =>
                    \E n \in DOMAIN outFile'.rows :
                        /\ outFile'.rows[n].id = srcFile[j].id
                        /\ outFile'.rows[n].observaciones_original
                                = outFile.rows[k].observaciones_original
                        /\ outFile'.rows[n].observaciones_final
                                = outFile.rows[k].observaciones_final
         /\ \A a, b \in DOMAIN outFile'.rows :
                a < b => outFile'.rows[a].id < outFile'.rows[b].id)]_vars

\* C20 witness: preparar() has run on a source file that carries a new id on
\* two rows with different texts, and the table written holds the text of
\* the second row for it.
C20_Witness ==
    /\ JustPrepared
    /\ Len(srcFile) = 2
    /\ srcFile[1].id = srcFile[2].id
    /\ srcFile[1].observaciones # srcFile[2].observaciones
    /\ srcFile[2].observaciones # Null
    /\ DOMAIN df_out = {}
    /\ srcFile[2].id \in DOMAIN Persisted
    /\ Persisted[srcFile[2].id].observaciones_original = srcFile[2].observaciones

\* An attempt of the retry loop is about to start, or the loop has been left.
AttemptStartOrExit == (pc = "attempt" /\ i = 0) \/ pc = "merge"

\* C21: at the start of every attempt and at the exit of the retry loop, the
\* keys of results and the ids of pending are disjoint and together they are
\* the ids that were pending when the loop was entered; from one attempt to
\* the next the keys of results only grow and the ids of pending only shrink.
C21_LoopAccounting ==
    /\ [](AttemptStartOrExit =>
            (/\ (DOMAIN results) \cap SeqIds(pending) = {}
             /\ (DOMAIN results) \cup SeqIds(pending) = Pendientes(df_in, df_out)))
    /\ [][(pc \in {"attempt", "items"}) =>
            ((DOMAIN results) \subseteq (DOMAIN results'))]_vars
    /\ [][(pc = "attempt" /\ attempt' = attempt + 1) =>
            (SeqIds(pending') \subseteq SeqIds(pending))]_vars

\* C21 witness: the second attempt starts with one id resolved and another
\* one still pending.
C21_Witness ==
    /\ pc = "attempt"
    /\ i = 0
    /\ attempt = 2
    /\ DOMAIN results # {}
    /\ pending # <<>>

\* procesar() has written: after the retry loop, or with nothing pending.
ProcesarWrote == pc = "done" /\ outcome = "ok"

\* C22: when the persisted table read by procesar() is not empty, the file
\* procesar() writes has exactly its ids, one row per id, in increasing order
\* of id: no row is added for an id of the oracle's answer or of the source
\* alone, and no row is dropped.
C22_MergePreservesIds ==
    (ProcesarWrote /\ DOMAIN df_out # {}) =>
        /\ FileIds(outFile.rows) = DOMAIN df_out
        /\ Len(outFile.rows) = Cardinality(DOMAIN df_out)
        /\ \A a, b \in DOMAIN outFile.rows :
                a < b => outFile.rows[a].id < outFile.rows[b].id

\* C22 witness: results were merged into a table that is not empty while the
\* source holds an id the table has not.
C22_Witness ==
    /\ ProcesarWrote
    /\ attempt > 1
    /\ DOMAIN results # {}
    /\ DOMAIN df_out # {}
    /\ (DOMAIN df_in) \ (DOMAIN df_out) # {}

====
